---- MODULE Spec2Model ----
(***************************************************************************)
(* run_claude_with_zen.py as a state machine.                              *)
(*                                                                         *)
(* One Python process with a single thread.  `pc` is the position of the   *)
(* module-level code and of main(); `hpc` is the position of the innermost *)
(* running signal_handler (Python runs a handler on the main thread,       *)
(* between two bytecodes of whatever was executing, and a handler can be   *)
(* interrupted by a further signal); `cpc` is the position of the          *)
(* innermost running cleanup().  Every signal_handler ends in sys.exit(0), *)
(* whose SystemExit unwinds every frame below it that does not catch       *)
(* BaseException, so an interrupted handler or cleanup() never resumes.    *)
(***************************************************************************)
EXTENDS Integers, FiniteSets, Sequences

\* ---------------------------------------------------------------- bounds

\* Signals (SIGINT or SIGTERM) delivered to the process during one session.
MaxSignals == 2

\* ------------------------------------------------------------ vocabulary

Unset == "<unset>"

\* The required executables of check_dependencies, in dict order.
RequiredCmds == <<"claude", "redis-server", "python3">>

\* Outcomes of a subprocess.run(..., check=True) probe.
ProbeOutcomes == {"ok", "CalledProcessError", "FileNotFoundError"}

\* Values os.getenv can give for the mandatory key.
AnthropicValues == {Unset, "", "sk-key"}

OptionalVars == {"GEMINI_API_KEY", "OPENAI_API_KEY", "OPENROUTER_API_KEY"}

\* Values os.getenv can give for an optional key.  The three keys are read
\* alike, so the set-but-empty value is drawn for the first of them only.
OptionalValues(v) ==
    IF v = "GEMINI_API_KEY" THEN {Unset, "", "key"} ELSE {Unset, "key"}

\* The environments of the optional keys.
OptionalEnvs ==
    {env \in [OptionalVars -> {Unset, "", "key"}] :
        \A v \in OptionalVars : env[v] \in OptionalValues(v)}

\* result.returncode of the client: an exit code, or -N when signal N killed it.
ClientReturnCodes == {0, 1, 3, 255, -9}

SignalKinds == {"SIGINT", "SIGTERM"}

VARIABLES
    argv_len,           \* len(sys.argv)
    anthropic_key,      \* os.getenv("ANTHROPIC_API_KEY")
    optional_env,       \* os.getenv of each optional key
    requirements_exists,\* requirements_file.exists()
    pc,                 \* position of the module code / main()
    hpc,                \* position of the innermost signal_handler
    cpc,                \* position of the innermost cleanup()
    atexit_registered,  \* atexit.register(cleanup) has run
    handlers,           \* the signals routed to signal_handler
    dep_idx,            \* index of the next version probe
    missing,            \* check_dependencies: the commands found missing
    redis_process,      \* the global: "None" or "Popen"
    redis_alive,        \* the spawned redis-server is running
    first_probe,        \* outcome of the first redis-cli ping, "" before it
    client_alive,       \* the client child is running
    exit_code_var,      \* main()'s local exit_code (result.returncode)
    config_exists,      \* the temporary configuration file is on disk
    status,             \* the exit status the process ends with
    spawned,            \* children spawned so far, by kind
    calls,              \* history: counts of the operations the claims name
    flags,              \* history: facts the claims name
    signals,            \* signals delivered so far
    steps               \* history: the setup steps begun and returned from

vars == <<argv_len, anthropic_key, optional_env, requirements_exists, pc, hpc,
          cpc, atexit_registered, handlers, dep_idx, missing, redis_process,
          redis_alive, first_probe, client_alive, exit_code_var, config_exists,
          status, spawned, calls, flags, signals, steps>>

inputs == <<argv_len, anthropic_key, optional_env, requirements_exists>>

SpawnKinds == {"version_probe", "pip", "redis_cli", "redis_server", "client"}

CallKinds == {"cleanup", "cleanup_body", "terminate", "kill", "start_redis",
              "config_create", "config_unlink"}

FlagNames == {"env_resolved", "optional_warning", "requirements_warning",
              "popen_failed", "verify_failed", "redis_warning",
              "client_launched", "client_completed", "finally_done",
              "unlinked_while_client_alive", "pip_failed",
              "cleanup_interrupted", "cleanup_raised",
              "default_disposition_after_spawn"}

Bump(f, k) == [f EXCEPT ![k] = @ + 1]

Mark(f, k) == [f EXCEPT ![k] = TRUE]

Init ==
    /\ argv_len \in {1, 2}
    /\ anthropic_key \in AnthropicValues
    /\ optional_env \in OptionalEnvs
    /\ requirements_exists \in BOOLEAN
    /\ pc = "load_atexit"
    /\ hpc = "none"
    /\ cpc = "none"
    /\ atexit_registered = FALSE
    /\ handlers = {}
    /\ dep_idx = 1
    /\ missing = {}
    /\ redis_process = "None"
    /\ redis_alive = FALSE
    /\ first_probe = ""
    /\ client_alive = FALSE
    /\ exit_code_var = 0
    /\ config_exists = FALSE
    /\ status = 0
    /\ spawned = [k \in SpawnKinds |-> 0]
    /\ calls = [k \in CallKinds |-> 0]
    /\ flags = [k \in FlagNames |-> FALSE]
    /\ signals = 0
    /\ steps = <<>>

\* The calls of main(), lines 214-239, in program order.
StepOrder == <<"check_dependencies", "setup_environment",
               "install_dependencies", "start_redis", "create_mcp_config",
               "run_claude_code">>

\* A step of main() is entered, and returns to main().
Started(q, step) == Append(q, <<step, "start">>)

Returned(q, step) == Append(q, <<step, "end">>)

\* The main code runs only while no handler is on top of it.
MainRuns == hpc = "none" /\ cpc = "none"

\* The positions of main() inside its try block (lines 233-243).
TryBlock == {"try", "client_spawn", "client_wait", "client_ret", "exit_nonzero"}

\* The exit status of sys.exit(n): the low eight bits of n.
ExitStatus(n) == n % 256

\* Where an exception raised at position p of the main code lands: in main()'s
\* finally when p is inside the try, else at the exit hooks.
Unwind(p) == IF p \in TryBlock THEN "finally" ELSE "atexit"

\* ------------------------------------------------- module-level code, 47-57

\* Line 47: atexit.register(cleanup).
load_atexit_register ==
    /\ MainRuns /\ pc = "load_atexit"
    /\ atexit_registered' = TRUE
    /\ pc' = "load_sigint"
    /\ UNCHANGED <<inputs, steps, hpc, cpc, handlers, dep_idx, missing, redis_process,
                   redis_alive, first_probe, client_alive, exit_code_var,
                   config_exists, status, spawned, calls, flags, signals>>

\* Line 56: signal.signal(signal.SIGINT, signal_handler).
load_signal_sigint ==
    /\ MainRuns /\ pc = "load_sigint"
    /\ handlers' = handlers \cup {"SIGINT"}
    /\ pc' = "load_sigterm"
    /\ UNCHANGED <<inputs, steps, hpc, cpc, atexit_registered, dep_idx, missing,
                   redis_process, redis_alive, first_probe, client_alive,
                   exit_code_var, config_exists, status, spawned, calls, flags,
                   signals>>

\* Variant of load_signal_sigterm: line 57 is left out, SIGTERM keeps its
\* default disposition.
load_signal_sigterm_left_out ==
    /\ MainRuns /\ pc = "load_sigterm"
    /\ pc' = "main"
    /\ UNCHANGED <<inputs, steps, hpc, cpc, atexit_registered, handlers, dep_idx,
                   missing, redis_process, redis_alive, first_probe,
                   client_alive, exit_code_var, config_exists, status, spawned,
                   calls, flags, signals>>

\* Line 57: signal.signal(signal.SIGTERM, signal_handler); then main() is called.
load_signal_sigterm ==
    /\ MainRuns /\ pc = "load_sigterm"
    /\ handlers' = handlers \cup {"SIGTERM"}
    /\ pc' = "main"
    /\ UNCHANGED <<inputs, steps, hpc, cpc, atexit_registered, dep_idx, missing,
                   redis_process, redis_alive, first_probe, client_alive,
                   exit_code_var, config_exists, status, spawned, calls, flags,
                   signals>>

\* ------------------------------------------------------------ main, 198-214

\* Variant of main_usage: main() calls setup_environment() first and leaves
\* check_dependencies() out.
main_usage_env_first ==
    /\ MainRuns /\ pc = "main"
    /\ IF argv_len < 2
         THEN pc' = Unwind(pc) /\ status' = ExitStatus(1)
         ELSE pc' = "setup_env" /\ status' = status
    /\ UNCHANGED <<inputs, steps, hpc, cpc, atexit_registered, handlers, dep_idx,
                   missing, redis_process, redis_alive, first_probe,
                   client_alive, exit_code_var, config_exists, spawned, calls,
                   flags, signals>>

\* Lines 198-210: the usage check; sys.exit(1) without a prompt argument.
main_usage ==
    /\ MainRuns /\ pc = "main"
    /\ IF argv_len < 2
         THEN pc' = Unwind(pc) /\ status' = ExitStatus(1)
         ELSE pc' = "check_dep" /\ status' = status
    /\ UNCHANGED <<inputs, steps, hpc, cpc, atexit_registered, handlers, dep_idx,
                   missing, redis_process, redis_alive, first_probe,
                   client_alive, exit_code_var, config_exists, spawned, calls,
                   flags, signals>>

\* ------------------------------------------------ check_dependencies, 59-77

\* Lines 68-72: one version probe.  FileNotFoundError means nothing was spawned;
\* both failures add the command to `missing`.
check_dependencies_probe ==
    /\ MainRuns /\ pc = "check_dep"
    /\ \E outcome \in ProbeOutcomes :
         /\ spawned' = IF outcome = "FileNotFoundError" THEN spawned
                       ELSE Bump(spawned, "version_probe")
         /\ missing' = IF outcome = "ok" THEN missing
                       ELSE missing \cup {RequiredCmds[dep_idx]}
    /\ dep_idx' = dep_idx + 1
    /\ pc' = IF dep_idx = Len(RequiredCmds) THEN "dep_decide" ELSE "check_dep"
    /\ steps' = IF dep_idx = 1 THEN Started(steps, "check_dependencies")
                ELSE steps
    /\ UNCHANGED <<inputs, hpc, cpc, atexit_registered, handlers, redis_process,
                   redis_alive, first_probe, client_alive, exit_code_var,
                   config_exists, status, calls, flags, signals>>

\* Variant of check_dependencies_decide: the missing commands are printed but
\* sys.exit(1) is left out.
check_dependencies_decide_no_exit ==
    /\ MainRuns /\ pc = "dep_decide"
    /\ pc' = "setup_env"
    /\ steps' = Returned(steps, "check_dependencies")
    /\ UNCHANGED <<inputs, hpc, cpc, atexit_registered, handlers, dep_idx,
                   missing, redis_process, redis_alive, first_probe,
                   client_alive, exit_code_var, config_exists, status, spawned,
                   calls, flags, signals>>

\* Lines 74-77: sys.exit(1) when anything is missing.
check_dependencies_decide ==
    /\ MainRuns /\ pc = "dep_decide"
    /\ IF missing # {}
         THEN pc' = Unwind(pc) /\ status' = ExitStatus(1)
         ELSE pc' = "setup_env" /\ status' = status
    /\ steps' = IF missing # {} THEN steps
                ELSE Returned(steps, "check_dependencies")
    /\ UNCHANGED <<inputs, hpc, cpc, atexit_registered, handlers, dep_idx,
                   missing, redis_process, redis_alive, first_probe,
                   client_alive, exit_code_var, config_exists, spawned, calls,
                   flags, signals>>

\* ------------------------------------------------- setup_environment, 79-108

\* Variant of KeyMissing: `anthropic_key is None`, which lets an empty key pass.
KeyIsNone(key) == key = Unset

\* `not anthropic_key`: true of None and of the empty string.
KeyMissing(key) == key \in {Unset, ""}

\* Line 93: any([gemini_key, openai_key, openrouter_key]); None and the empty
\* string are both false.
AnyOptional(env) == \E v \in OptionalVars : env[v] \notin {Unset, ""}

\* Variant of setup_environment: having no optional key is fatal as well.
setup_environment_optional_fatal ==
    /\ MainRuns /\ pc = "setup_env"
    /\ IF KeyMissing(anthropic_key) \/ ~AnyOptional(optional_env)
         THEN /\ pc' = Unwind(pc)
              /\ status' = ExitStatus(1)
              /\ flags' = [flags EXCEPT !["env_resolved"] = TRUE,
                                        !["optional_warning"] =
                                            ~KeyMissing(anthropic_key)]
              /\ steps' = Started(steps, "setup_environment")
         ELSE /\ pc' = "install"
              /\ status' = status
              /\ flags' = Mark(flags, "env_resolved")
              /\ steps' = Returned(Started(steps, "setup_environment"),
                                   "setup_environment")
    /\ UNCHANGED <<inputs, hpc, cpc, atexit_registered, handlers, dep_idx,
                   missing, redis_process, redis_alive, first_probe,
                   client_alive, exit_code_var, config_exists, spawned, calls,
                   signals>>

\* Lines 82-108: sys.exit(1) without the mandatory key; the warning when no
\* optional key is set; the bundle is returned either way.
setup_environment ==
    /\ MainRuns /\ pc = "setup_env"
    /\ IF KeyMissing(anthropic_key)
         THEN /\ pc' = Unwind(pc)
              /\ status' = ExitStatus(1)
              /\ flags' = Mark(flags, "env_resolved")
         ELSE /\ pc' = "install"
              /\ status' = status
              /\ flags' = [flags EXCEPT !["env_resolved"] = TRUE,
                                        !["optional_warning"] =
                                            ~AnyOptional(optional_env)]
    /\ steps' = IF KeyMissing(anthropic_key)
                THEN Started(steps, "setup_environment")
                ELSE Returned(Started(steps, "setup_environment"),
                              "setup_environment")
    /\ UNCHANGED <<inputs, hpc, cpc, atexit_registered, handlers, dep_idx,
                   missing, redis_process, redis_alive, first_probe,
                   client_alive, exit_code_var, config_exists, spawned, calls,
                   signals>>

\* --------------------------------------------- install_dependencies, 140-151

\* Variant of install_dependencies: pip runs without check=True, so its
\* failure is not raised.
install_dependencies_unchecked ==
    /\ MainRuns /\ pc = "install"
    /\ IF requirements_exists
         THEN /\ spawned' = Bump(spawned, "pip")
              /\ \E outcome \in {"ok", "CalledProcessError"} :
                   flags' = IF outcome = "ok" THEN flags
                            ELSE Mark(flags, "pip_failed")
         ELSE /\ spawned' = spawned
              /\ flags' = Mark(flags, "requirements_warning")
    /\ pc' = "redis_probe1"
    /\ steps' = Returned(Started(steps, "install_dependencies"),
                         "install_dependencies")
    /\ UNCHANGED <<inputs, hpc, cpc, atexit_registered, handlers, dep_idx,
                   missing, redis_process, redis_alive, first_probe,
                   client_alive, exit_code_var, config_exists, status, calls,
                   signals>>

\* Lines 146-151: pip runs with check=True when requirements.txt exists; its
\* CalledProcessError is caught nowhere and ends the process with status 1.
install_dependencies ==
    /\ MainRuns /\ pc = "install"
    /\ IF requirements_exists
         THEN /\ spawned' = Bump(spawned, "pip")
              /\ \E outcome \in {"ok", "CalledProcessError"} :
                   IF outcome = "ok"
                     THEN /\ pc' = "redis_probe1"
                          /\ status' = status
                          /\ flags' = flags
                          /\ steps' = Returned(Started(steps,
                                 "install_dependencies"), "install_dependencies")
                     ELSE /\ pc' = Unwind(pc)
                          /\ status' = ExitStatus(1)
                          /\ flags' = Mark(flags, "pip_failed")
                          /\ steps' = Started(steps, "install_dependencies")
         ELSE /\ spawned' = spawned
              /\ flags' = Mark(flags, "requirements_warning")
              /\ pc' = "redis_probe1"
              /\ status' = status
              /\ steps' = Returned(Started(steps, "install_dependencies"),
                                   "install_dependencies")
    /\ UNCHANGED <<inputs, hpc, cpc, atexit_registered, handlers, dep_idx,
                   missing, redis_process, redis_alive, first_probe,
                   client_alive, exit_code_var, config_exists, calls, signals>>

\* ------------------------------------------------------ start_redis, 110-138

\* Variant of start_redis_probe: the `return` of line 118 is left out, so a
\* successful ping falls through to the spawn.
start_redis_probe_no_return ==
    /\ MainRuns /\ pc = "redis_probe1"
    /\ \E outcome \in ProbeOutcomes :
         /\ first_probe' = outcome
         /\ spawned' = IF outcome = "FileNotFoundError" THEN spawned
                       ELSE Bump(spawned, "redis_cli")
    /\ pc' = "redis_spawn"
    /\ calls' = Bump(calls, "start_redis")
    /\ steps' = Started(steps, "start_redis")
    /\ UNCHANGED <<inputs, hpc, cpc, atexit_registered, handlers, dep_idx,
                   missing, redis_process, redis_alive, client_alive,
                   exit_code_var, config_exists, status, flags, signals>>

\* Lines 115-120: the first redis-cli ping.  Success returns at once; either
\* failure falls through to the spawn.
start_redis_probe ==
    /\ MainRuns /\ pc = "redis_probe1"
    /\ \E outcome \in ProbeOutcomes :
         /\ first_probe' = outcome
         /\ spawned' = IF outcome = "FileNotFoundError" THEN spawned
                       ELSE Bump(spawned, "redis_cli")
         /\ pc' = IF outcome = "ok" THEN "create_cfg" ELSE "redis_spawn"
         /\ steps' = IF outcome = "ok"
                     THEN Returned(Started(steps, "start_redis"), "start_redis")
                     ELSE Started(steps, "start_redis")
    /\ calls' = Bump(calls, "start_redis")
    /\ UNCHANGED <<inputs, hpc, cpc, atexit_registered, handlers, dep_idx,
                   missing, redis_process, redis_alive, client_alive,
                   exit_code_var, config_exists, status, flags, signals>>

\* Line 124, the call: subprocess.Popen forks redis-server, or raises (caught
\* at line 136).  The global is not yet assigned when the call returns.
start_redis_popen ==
    /\ MainRuns /\ pc = "redis_spawn"
    /\ \/ /\ spawned' = Bump(spawned, "redis_server")
          /\ redis_alive' = TRUE
          /\ pc' = "redis_assign"
          /\ flags' = flags
       \/ /\ UNCHANGED <<spawned, redis_alive>>
          /\ pc' = "redis_warn"
          /\ flags' = Mark(flags, "popen_failed")
    /\ UNCHANGED <<inputs, steps, hpc, cpc, atexit_registered, handlers, dep_idx,
                   missing, redis_process, first_probe, client_alive,
                   exit_code_var, config_exists, status, calls, signals>>

\* Line 124, the store: redis_process = <the Popen object>.
start_redis_assign ==
    /\ MainRuns /\ pc = "redis_assign"
    /\ redis_process' = "Popen"
    /\ pc' = "redis_sleep"
    /\ UNCHANGED <<inputs, steps, hpc, cpc, atexit_registered, handlers, dep_idx,
                   missing, redis_alive, first_probe, client_alive,
                   exit_code_var, config_exists, status, spawned, calls, flags,
                   signals>>

\* Lines 131-135: time.sleep(2), then the second ping; its failure is caught
\* at line 136.
start_redis_verify ==
    /\ MainRuns /\ pc = "redis_sleep"
    /\ \E outcome \in ProbeOutcomes :
         /\ spawned' = IF outcome = "FileNotFoundError" THEN spawned
                       ELSE Bump(spawned, "redis_cli")
         /\ pc' = IF outcome = "ok" THEN "create_cfg" ELSE "redis_warn"
         /\ steps' = IF outcome = "ok" THEN Returned(steps, "start_redis")
                     ELSE steps
         /\ flags' = IF outcome = "ok" THEN flags
                     ELSE Mark(flags, "verify_failed")
    /\ UNCHANGED <<inputs, hpc, cpc, atexit_registered, handlers, dep_idx,
                   missing, redis_process, redis_alive, first_probe,
                   client_alive, exit_code_var, config_exists, status, calls,
                   signals>>

\* Variant of start_redis_except: the failure is fatal, sys.exit(1).
start_redis_except_abort ==
    /\ MainRuns /\ pc = "redis_warn"
    /\ flags' = Mark(flags, "redis_warning")
    /\ pc' = Unwind(pc)
    /\ status' = ExitStatus(1)
    /\ steps' = steps
    /\ UNCHANGED <<inputs, hpc, cpc, atexit_registered, handlers, dep_idx,
                   missing, redis_process, redis_alive, first_probe,
                   client_alive, exit_code_var, config_exists, spawned, calls,
                   signals>>

\* Variant of start_redis_except: a service that failed its re-probe is
\* disowned, redis_process = None.
start_redis_except_disown ==
    /\ MainRuns /\ pc = "redis_warn"
    /\ flags' = Mark(flags, "redis_warning")
    /\ redis_process' = "None"
    /\ pc' = "create_cfg"
    /\ steps' = Returned(steps, "start_redis")
    /\ UNCHANGED <<inputs, hpc, cpc, atexit_registered, handlers, dep_idx,
                   missing, redis_alive, first_probe, client_alive,
                   exit_code_var, config_exists, status, spawned, calls,
                   signals>>

\* Variant of start_redis_except: the first failure goes back to the spawn.
start_redis_except_retry ==
    /\ MainRuns /\ pc = "redis_warn"
    /\ flags' = Mark(flags, "redis_warning")
    /\ pc' = IF flags["redis_warning"] THEN "create_cfg" ELSE "redis_spawn"
    /\ steps' = IF flags["redis_warning"] THEN Returned(steps, "start_redis")
                ELSE steps
    /\ UNCHANGED <<inputs, hpc, cpc, atexit_registered, handlers, dep_idx,
                   missing, redis_process, redis_alive, first_probe,
                   client_alive, exit_code_var, config_exists, status, spawned,
                   calls, signals>>

\* Lines 136-138: `except Exception` prints the two warning lines and
\* start_redis returns normally.
start_redis_except ==
    /\ MainRuns /\ pc = "redis_warn"
    /\ flags' = Mark(flags, "redis_warning")
    /\ pc' = "create_cfg"
    /\ steps' = Returned(steps, "start_redis")
    /\ UNCHANGED <<inputs, hpc, cpc, atexit_registered, handlers, dep_idx,
                   missing, redis_process, redis_alive, first_probe,
                   client_alive, exit_code_var, config_exists, status, spawned,
                   calls, signals>>

\* ------------------------------------------------ create_mcp_config, 153-175

\* Line 173: NamedTemporaryFile(delete=False) creates the file.
create_mcp_config_open ==
    /\ MainRuns /\ pc = "create_cfg"
    /\ config_exists' = TRUE
    /\ calls' = Bump(calls, "config_create")
    /\ pc' = "cfg_dump"
    /\ steps' = Started(steps, "create_mcp_config")
    /\ UNCHANGED <<inputs, hpc, cpc, atexit_registered, handlers, dep_idx,
                   missing, redis_process, redis_alive, first_probe,
                   client_alive, exit_code_var, status, spawned, flags, signals>>

\* Lines 174-175 and 231: json.dump, return f.name, mcp_config_path = ...;
\* still outside the try of line 233.
create_mcp_config_return ==
    /\ MainRuns /\ pc = "cfg_dump"
    /\ pc' = "try"
    /\ steps' = Returned(steps, "create_mcp_config")
    /\ UNCHANGED <<inputs, hpc, cpc, atexit_registered, handlers, dep_idx,
                   missing, redis_process, redis_alive, first_probe,
                   client_alive, exit_code_var, config_exists, status, spawned,
                   calls, flags, signals>>

\* ---------------------------------------- main 233-243, run_claude_code 177-194

\* Lines 233-237 and 179-190: the try is entered and the command is built.
main_try ==
    /\ MainRuns /\ pc = "try"
    /\ pc' = "client_spawn"
    /\ UNCHANGED <<inputs, steps, hpc, cpc, atexit_registered, handlers, dep_idx,
                   missing, redis_process, redis_alive, first_probe,
                   client_alive, exit_code_var, config_exists, status, spawned,
                   calls, flags, signals>>

\* Line 193: subprocess.run starts the client, or raises (no such executable or
\* working directory): that exception is caught nowhere, status 1.
run_claude_code_spawn ==
    /\ MainRuns /\ pc = "client_spawn"
    /\ flags' = Mark(flags, "client_launched")
    /\ \/ /\ spawned' = Bump(spawned, "client")
          /\ client_alive' = TRUE
          /\ pc' = "client_wait"
          /\ status' = status
       \/ /\ UNCHANGED <<spawned, client_alive>>
          /\ pc' = Unwind(pc)
          /\ status' = ExitStatus(1)
    /\ steps' = Started(steps, "run_claude_code")
    /\ UNCHANGED <<inputs, hpc, cpc, atexit_registered, handlers, dep_idx,
                   missing, redis_process, redis_alive, first_probe,
                   exit_code_var, config_exists, calls, signals>>

\* Lines 193-194 and 239: the client ends; exit_code = result.returncode.
run_claude_code_return ==
    /\ MainRuns /\ pc = "client_wait"
    /\ \E rc \in ClientReturnCodes : exit_code_var' = rc
    /\ client_alive' = FALSE
    /\ flags' = Mark(flags, "client_completed")
    /\ pc' = "client_ret"
    /\ steps' = Returned(steps, "run_claude_code")
    /\ UNCHANGED <<inputs, hpc, cpc, atexit_registered, handlers, dep_idx,
                   missing, redis_process, redis_alive, first_probe,
                   config_exists, status, spawned, calls, signals>>

\* Line 241: if exit_code != 0.
main_check_exit_code ==
    /\ MainRuns /\ pc = "client_ret"
    /\ pc' = IF exit_code_var # 0 THEN "exit_nonzero" ELSE "finally"
    /\ UNCHANGED <<inputs, steps, hpc, cpc, atexit_registered, handlers, dep_idx,
                   missing, redis_process, redis_alive, first_probe,
                   client_alive, exit_code_var, config_exists, status, spawned,
                   calls, flags, signals>>

\* Variant of main_sys_exit: sys.exit(1) for every client failure.
main_sys_exit_one ==
    /\ MainRuns /\ pc = "exit_nonzero"
    /\ status' = ExitStatus(1)
    /\ pc' = Unwind(pc)
    /\ UNCHANGED <<inputs, steps, hpc, cpc, atexit_registered, handlers, dep_idx,
                   missing, redis_process, redis_alive, first_probe,
                   client_alive, exit_code_var, config_exists, spawned, calls,
                   flags, signals>>

\* Lines 242-243: sys.exit(exit_code).
main_sys_exit ==
    /\ MainRuns /\ pc = "exit_nonzero"
    /\ status' = ExitStatus(exit_code_var)
    /\ pc' = Unwind(pc)
    /\ UNCHANGED <<inputs, steps, hpc, cpc, atexit_registered, handlers, dep_idx,
                   missing, redis_process, redis_alive, first_probe,
                   client_alive, exit_code_var, config_exists, spawned, calls,
                   flags, signals>>

\* Line 247: if os.path.exists(mcp_config_path).
main_finally_exists ==
    /\ MainRuns /\ pc = "finally"
    /\ pc' = IF config_exists THEN "finally_unlink" ELSE "atexit"
    /\ flags' = IF config_exists THEN flags ELSE Mark(flags, "finally_done")
    /\ UNCHANGED <<inputs, steps, hpc, cpc, atexit_registered, handlers, dep_idx,
                   missing, redis_process, redis_alive, first_probe,
                   client_alive, exit_code_var, config_exists, status, spawned,
                   calls, signals>>

\* Variant of main_finally_unlink: the finally block leaves the file in place.
main_finally_no_unlink ==
    /\ MainRuns /\ pc = "finally_unlink"
    /\ flags' = Mark(flags, "finally_done")
    /\ pc' = "atexit"
    /\ UNCHANGED <<inputs, steps, hpc, cpc, atexit_registered, handlers, dep_idx,
                   missing, redis_process, redis_alive, first_probe,
                   client_alive, exit_code_var, config_exists, status, spawned,
                   calls, signals>>

\* Line 248: os.unlink(mcp_config_path); the finally block ends and the pending
\* SystemExit, exception or normal return goes on to the exit hooks.
main_finally_unlink ==
    /\ MainRuns /\ pc = "finally_unlink"
    /\ config_exists' = FALSE
    /\ calls' = Bump(calls, "config_unlink")
    /\ flags' = [flags EXCEPT !["finally_done"] = TRUE,
                              !["unlinked_while_client_alive"] = @ \/ client_alive]
    /\ pc' = "atexit"
    /\ UNCHANGED <<inputs, steps, hpc, cpc, atexit_registered, handlers, dep_idx,
                   missing, redis_process, redis_alive, first_probe,
                   client_alive, exit_code_var, status, spawned, signals>>

\* ----------------------------------------------------------- cleanup, 26-44

\* Variant of cleanup_enter: the Redis block is not guarded by
\* `if redis_process`, teardown stops the service whoever started it.
cleanup_enter_unguarded ==
    /\ cpc = "redis"
    /\ cpc' = "wait"
    /\ calls' = [calls EXCEPT !["cleanup_body"] = @ + 1,
                              !["terminate"] = @ + 1]
    /\ UNCHANGED <<inputs, steps, pc, hpc, atexit_registered, handlers, dep_idx,
                   missing, redis_process, redis_alive, first_probe,
                   client_alive, exit_code_var, config_exists, status, spawned,
                   flags, signals>>

\* Lines 30 and 38-40: mcp_process is never assigned, so its block is skipped;
\* when redis_process is set the Redis block is entered and
\* redis_process.terminate() is called.
cleanup_enter ==
    /\ cpc = "redis"
    /\ IF redis_process # "None"
         THEN /\ cpc' = "wait"
              /\ calls' = [calls EXCEPT !["cleanup_body"] = @ + 1,
                                        !["terminate"] = @ + 1]
         ELSE /\ cpc' = "ret"
              /\ calls' = calls
    /\ UNCHANGED <<inputs, steps, pc, hpc, atexit_registered, handlers, dep_idx,
                   missing, redis_process, redis_alive, first_probe,
                   client_alive, exit_code_var, config_exists, status, spawned,
                   flags, signals>>

\* Variant of cleanup_wait: kill() sits in a `finally`, so it also follows a
\* wait that returned because the process had exited.
cleanup_wait_then_kill ==
    /\ cpc = "wait"
    /\ \/ redis_alive' = FALSE
       \/ redis_alive /\ redis_alive' = redis_alive
    /\ cpc' = "kill"
    /\ UNCHANGED <<inputs, steps, pc, hpc, atexit_registered, handlers, dep_idx,
                   missing, redis_process, first_probe, client_alive,
                   exit_code_var, config_exists, status, spawned, calls, flags,
                   signals>>

\* Lines 41-43: redis_process.wait(timeout=5) returns when the process has
\* exited, or raises TimeoutExpired.
cleanup_wait ==
    /\ cpc = "wait"
    /\ \/ /\ redis_alive' = FALSE
          /\ cpc' = "ret"
       \/ /\ redis_alive
          /\ redis_alive' = redis_alive
          /\ cpc' = "kill"
    /\ UNCHANGED <<inputs, steps, pc, hpc, atexit_registered, handlers, dep_idx,
                   missing, redis_process, first_probe, client_alive,
                   exit_code_var, config_exists, status, spawned, calls, flags,
                   signals>>

\* Line 44: redis_process.kill().
cleanup_kill ==
    /\ cpc = "kill"
    /\ calls' = Bump(calls, "kill")
    /\ redis_alive' = FALSE
    /\ cpc' = "ret"
    /\ UNCHANGED <<inputs, steps, pc, hpc, atexit_registered, handlers, dep_idx,
                   missing, redis_process, first_probe, client_alive,
                   exit_code_var, config_exists, status, spawned, flags,
                   signals>>

\* cleanup() returns: to signal_handler (line 53 is next), or to the exit
\* machinery, which has no other hook to run.
cleanup_return ==
    /\ cpc = "ret"
    /\ cpc' = "none"
    /\ IF hpc = "cleanup"
         THEN hpc' = "exit" /\ pc' = pc
         ELSE hpc' = hpc /\ pc' = "done"
    /\ UNCHANGED <<inputs, steps, atexit_registered, handlers, dep_idx, missing,
                   redis_process, redis_alive, first_probe, client_alive,
                   exit_code_var, config_exists, status, spawned, calls, flags,
                   signals>>

\* Line 47's hook at process exit: cleanup() is called when it was registered.
atexit_run ==
    /\ MainRuns /\ pc = "atexit"
    /\ IF atexit_registered
         THEN cpc' = "redis" /\ pc' = pc /\ calls' = Bump(calls, "cleanup")
         ELSE cpc' = cpc /\ pc' = "done" /\ calls' = calls
    /\ UNCHANGED <<inputs, steps, hpc, atexit_registered, handlers, dep_idx, missing,
                   redis_process, redis_alive, first_probe, client_alive,
                   exit_code_var, config_exists, status, spawned, flags,
                   signals>>

\* ---------------------------------------------------- signal_handler, 49-57

\* Some child process (probe, installer, service or client) has been spawned.
AnySpawned == \E k \in SpawnKinds : spawned[k] > 0

\* A signal arrives.  One routed to signal_handler starts a new handler on top
\* of whatever runs.  An unrouted SIGINT raises KeyboardInterrupt (the process
\* then dies of SIGINT, 130, after its exit hooks; inside an exit hook the
\* exception is only reported); an unrouted SIGTERM kills the process at once.
deliver_signal ==
    /\ pc # "done"
    /\ signals < MaxSignals
    /\ signals' = signals + 1
    /\ \E sig \in SignalKinds :
         IF sig \in handlers
           THEN /\ hpc' = "print"
                /\ cpc' = "none"
                /\ flags' = [flags EXCEPT !["cleanup_interrupted"] =
                                              @ \/ cpc # "none"]
                /\ UNCHANGED <<pc, status>>
           ELSE IF sig = "SIGINT"
             THEN /\ hpc' = "none"
                  /\ cpc' = "none"
                  /\ pc' = IF pc = "atexit" THEN "done" ELSE Unwind(pc)
                  /\ status' = IF pc = "atexit" THEN status ELSE 130
                  /\ flags' = [flags EXCEPT
                        !["cleanup_raised"] = @ \/ cpc # "none",
                        !["default_disposition_after_spawn"] =
                              @ \/ AnySpawned]
             ELSE /\ hpc' = "none"
                  /\ cpc' = "none"
                  /\ pc' = "done"
                  /\ status' = 143
                  /\ flags' = [flags EXCEPT
                        !["default_disposition_after_spawn"] =
                              @ \/ AnySpawned]
    /\ UNCHANGED <<inputs, steps, atexit_registered, handlers, dep_idx, missing,
                   redis_process, redis_alive, first_probe, client_alive,
                   exit_code_var, config_exists, spawned, calls>>

\* Lines 51-52: the message is printed and cleanup() is called.
signal_handler_cleanup ==
    /\ hpc = "print"
    /\ hpc' = "cleanup"
    /\ cpc' = "redis"
    /\ calls' = Bump(calls, "cleanup")
    /\ UNCHANGED <<inputs, steps, pc, atexit_registered, handlers, dep_idx, missing,
                   redis_process, redis_alive, first_probe, client_alive,
                   exit_code_var, config_exists, status, spawned, flags,
                   signals>>

\* Line 53: sys.exit(0).  The SystemExit is raised where the main code was
\* interrupted.  Inside an exit hook it is discarded and the status stands.
\* Inside subprocess.run (line 193) the library kills the client and waits for
\* it before re-raising.  Inside main()'s try it runs the finally block; inside
\* the finally block it abandons the rest of that block.  A cleanup() that the
\* handler's signal interrupted (lines 41-43 catch TimeoutExpired only) is left
\* by this SystemExit.
signal_handler_exit ==
    /\ hpc = "exit"
    /\ hpc' = "none"
    /\ IF pc = "atexit"
         THEN pc' = "done" /\ status' = status
         ELSE pc' = Unwind(pc) /\ status' = ExitStatus(0)
    /\ client_alive' = FALSE
    /\ flags' = [flags EXCEPT !["cleanup_interrupted"] = FALSE,
                              !["cleanup_raised"] =
                                  @ \/ flags["cleanup_interrupted"]]
    /\ UNCHANGED <<inputs, steps, cpc, atexit_registered, handlers, dep_idx, missing,
                   redis_process, redis_alive, first_probe, exit_code_var,
                   config_exists, spawned, calls, signals>>

\* ------------------------------------------------------------ specification

Next ==
    \/ load_atexit_register
    \/ load_signal_sigint
    \/ load_signal_sigterm
    \/ main_usage
    \/ check_dependencies_probe
    \/ check_dependencies_decide
    \/ setup_environment
    \/ install_dependencies
    \/ start_redis_probe
    \/ start_redis_popen
    \/ start_redis_assign
    \/ start_redis_verify
    \/ start_redis_except
    \/ create_mcp_config_open
    \/ create_mcp_config_return
    \/ main_try
    \/ run_claude_code_spawn
    \/ run_claude_code_return
    \/ main_check_exit_code
    \/ main_sys_exit
    \/ main_finally_exists
    \/ main_finally_unlink
    \/ atexit_run
    \/ cleanup_enter
    \/ cleanup_wait
    \/ cleanup_kill
    \/ cleanup_return
    \/ deliver_signal
    \/ signal_handler_cleanup
    \/ signal_handler_exit

Spec == Init /\ [][Next]_vars

TypeOK ==
    /\ argv_len \in {1, 2}
    /\ anthropic_key \in AnthropicValues
    /\ optional_env \in OptionalEnvs
    /\ requirements_exists \in BOOLEAN
    /\ hpc \in {"none", "print", "cleanup", "exit"}
    /\ cpc \in {"none", "redis", "wait", "kill", "ret"}
    /\ redis_process \in {"None", "Popen"}
    /\ status \in 0..255
    /\ signals \in 0..MaxSignals

\* ------------------------------------------------------------------ claims

Done == pc = "done"

\* C1: the teardown body of cleanup() (terminate/wait/kill of the owned
\* service process) executes at most once in a session, whatever triggers fire.
C1_TeardownAtMostOnce == calls["cleanup_body"] <= 1

\* C2: when the process has exited after start_redis spawned a service process,
\* teardown has sent it a terminate request and it has exited or been killed.
C2_SpawnedServiceSignalled ==
    (Done /\ spawned["redis_server"] > 0)
        => (calls["terminate"] >= 1 /\ ~redis_alive)

\* C3: when the process has exited after the configuration file was created,
\* the file is gone, it was deleted exactly once, and never while the client ran.
C3_ConfigRemovedOnEveryExit ==
    (Done /\ calls["config_create"] > 0)
        => /\ ~config_exists
           /\ calls["config_unlink"] = 1
           /\ ~flags["unlinked_while_client_alive"]

\* C4: in a session with no signal, the configuration file exists for the whole
\* of run_claude_code() and is absent once main()'s finally block has run,
\* whatever the client returned.
C4_ConfigPresentDuringClient ==
    signals = 0 =>
        /\ (pc \in {"client_spawn", "client_wait"} \/ client_alive)
               => config_exists
        /\ flags["finally_done"] => ~config_exists

\* A session without signals whose client failed and whose finally block has run.
C4_Witness ==
    /\ signals = 0
    /\ flags["client_completed"] /\ exit_code_var = 3
    /\ flags["finally_done"] /\ ~config_exists

\* C5: in a session with no signal where setup succeeded and the client ran, the
\* process ends with the exit code the client returned (0 or non-zero).
C5_ExitCodePropagated ==
    (Done /\ signals = 0 /\ flags["client_completed"] /\ exit_code_var >= 0)
        => status = exit_code_var

\* A finished session without signals that ends with the client's code 3.
C5_Witness ==
    /\ Done /\ signals = 0
    /\ flags["client_completed"] /\ exit_code_var = 3 /\ status = 3

\* C6: the process ends with status 0 only when the client ran to completion
\* and itself returned 0.
C6_ZeroOnlyOnSuccess ==
    (Done /\ status = 0) => (flags["client_completed"] /\ exit_code_var = 0)

\* The children other than the version probes of check_dependencies.
LaterSpawns ==
    spawned["pip"] + spawned["redis_cli"] + spawned["redis_server"]
        + spawned["client"]

\* C7: when ANTHROPIC_API_KEY is absent or empty, no child other than the
\* version probes is ever spawned, and the session ends with status 1.
C7_MissingCredentialExitsOne ==
    anthropic_key \in {Unset, ""} =>
        /\ LaterSpawns = 0
        /\ (Done /\ signals = 0) => status = 1

\* A finished session whose dependency check passed and whose key is empty.
C7_Witness ==
    /\ Done /\ signals = 0
    /\ anthropic_key = "" /\ flags["env_resolved"] /\ status = 1
    /\ spawned["version_probe"] = Len(RequiredCmds)

\* C8: when a version probe fails or its executable is not found, nothing but
\* probes is spawned, no service handle and no configuration file is held, the
\* session ends with status 1, and credential resolution runs only after every
\* probe has run and none failed.
C8_MissingDependencyExitsOne ==
    /\ missing # {} =>
        /\ LaterSpawns = 0
        /\ redis_process = "None"
        /\ ~config_exists /\ calls["config_create"] = 0
        /\ (Done /\ signals = 0) => status = 1
    /\ flags["env_resolved"] => (dep_idx > Len(RequiredCmds) /\ missing = {})

\* A finished session in which one probe ran and failed and one found nothing.
C8_Witness ==
    /\ Done /\ signals = 0
    /\ missing = {"claude", "python3"} /\ spawned["version_probe"] = 2
    /\ status = 1 /\ ~flags["env_resolved"]

\* C9: when the first liveness probe succeeds, start_redis spawns no service
\* process, records no handle and goes nowhere near the spawn.
C9_LiveServiceNotSpawned ==
    first_probe = "ok" =>
        /\ spawned["redis_server"] = 0
        /\ redis_process = "None"
        /\ pc \notin {"redis_spawn", "redis_assign", "redis_sleep", "redis_warn"}

\* A session whose first probe succeeded and whose client then ran.
C9_Witness ==
    /\ first_probe = "ok" /\ Done
    /\ flags["client_completed"]

\* C10: when the spawn fails, or the re-probe after the spawn fails, the
\* warning is printed and start_redis returns; short of a signal, the session
\* does not reach its end without having created the configuration file and
\* launched the client.
C10_DegradedSessionContinues ==
    ((flags["popen_failed"] \/ flags["verify_failed"]) /\ signals = 0) =>
        /\ pc # "redis_warn" => flags["redis_warning"]
        /\ pc \in {"finally", "finally_unlink", "atexit", "done"}
               => (calls["config_create"] = 1 /\ flags["client_launched"])

\* A finished session whose re-probe failed and whose client ran all the same.
C10_Witness ==
    /\ Done /\ signals = 0
    /\ flags["verify_failed"] /\ flags["redis_warning"]
    /\ redis_process = "Popen" /\ flags["client_completed"]

\* C11: the forced kill is issued only by a cleanup() whose terminate request
\* has been issued and whose bounded wait expired with the process still
\* running; never before a terminate, never to a process that exited in the wait.
C11_KillOnlyAfterTimeout ==
    /\ [](cpc = "kill" => (redis_alive /\ calls["terminate"] >= 1))
    /\ [][calls["kill"]' # calls["kill"]
            => (cpc = "kill" /\ redis_alive /\ calls["terminate"] >= 1)]_vars

\* A process that outlived the wait has been killed.
C11_Witness ==
    /\ calls["kill"] >= 1 /\ calls["terminate"] >= 1
    /\ ~redis_alive /\ cpc = "ret"

\* C12: with signal_handler registered for both signals, no exception, the
\* SystemExit of signal_handler included, ever propagates out of an invocation
\* of cleanup().
C12_TeardownNeverRaises ==
    handlers = SignalKinds => ~flags["cleanup_raised"]

\* C13: the steps of main() begin in program order, each only after the one
\* before it has returned, and none begins once the session is on its way out.
C13_StepsInOrder ==
    /\ [](\A i \in 1..Len(steps) :
            steps[i] = <<StepOrder[(i + 1) \div 2],
                         IF i % 2 = 1 THEN "start" ELSE "end">>)
    /\ [][(pc \in {"finally", "finally_unlink", "atexit", "done"})
            => (steps' = steps)]_vars

\* A finished session in which all six steps began and returned.
C13_Witness ==
    /\ Done /\ Len(steps) = 2 * Len(StepOrder)
    /\ steps[7] = <<"start_redis", "start">>
    /\ steps[Len(steps)] = <<"run_claude_code", "end">>

\* C14: a session runs start_redis at most once, spawns at most one service
\* process and holds a handle only to a process it spawned.
C14_AtMostOneService ==
    /\ calls["start_redis"] <= 1
    /\ spawned["redis_server"] <= 1
    /\ redis_process = "Popen" => spawned["redis_server"] = 1

\* A finished session that spawned its one service process and owned it.
C14_Witness ==
    /\ Done /\ calls["start_redis"] = 1
    /\ spawned["redis_server"] = 1 /\ redis_process = "Popen"

\* C15: once any child process has been spawned, the exit hook and both signal
\* handlers are registered, and no signal has met the default disposition.
C15_RegisteredBeforeFirstSpawn ==
    AnySpawned =>
        /\ atexit_registered
        /\ handlers = SignalKinds
        /\ ~flags["default_disposition_after_spawn"]

\* A signal that arrived after a spawn is being handled by signal_handler.
C15_Witness ==
    /\ spawned["redis_server"] = 1 /\ signals = 1
    /\ hpc = "cleanup" /\ cpc = "wait"

\* The session went on from setup_environment: the bundle was returned and,
\* short of a signal or a failed installation, the session does not reach its
\* end without having run start_redis and launched the client.
SessionContinues ==
    /\ Len(steps) >= 4 /\ steps[4] = <<"setup_environment", "end">>
    /\ (signals = 0 /\ ~flags["pip_failed"]
          /\ pc \in {"finally", "finally_unlink", "atexit", "done"})
         => (calls["start_redis"] = 1 /\ flags["client_launched"])

\* C16 as stated: with the mandatory key present, the warning is printed
\* exactly when none of the optional keys is set, and the session continues.
C16_WarningIffNoneSet ==
    (flags["env_resolved"] /\ anthropic_key \notin {Unset, ""}) =>
        /\ flags["optional_warning"]
              <=> (\A v \in OptionalVars : optional_env[v] = Unset)
        /\ SessionContinues

\* C16, amended: with the mandatory key present, the warning is printed exactly
\* when no optional key holds a non-empty value, and the session continues.
C16_WarningIffNoneNonEmpty ==
    (flags["env_resolved"] /\ anthropic_key \notin {Unset, ""}) =>
        /\ flags["optional_warning"]
              <=> (\A v \in OptionalVars : optional_env[v] \in {Unset, ""})
        /\ SessionContinues

\* A finished session whose only optional key is set but empty: it warned and
\* ran the client.
C16_Witness ==
    /\ Done /\ signals = 0
    /\ optional_env["GEMINI_API_KEY"] = ""
    /\ \A v \in OptionalVars \ {"GEMINI_API_KEY"} : optional_env[v] = Unset
    /\ flags["optional_warning"] /\ flags["client_completed"]

\* C17: teardown signals only a process this session spawned; when the first
\* probe found the service running, no cleanup() ever terminates or kills.
C17_OnlyOwnProcessSignalled ==
    /\ (calls["terminate"] > 0 \/ calls["kill"] > 0)
          => (spawned["redis_server"] = 1 /\ redis_process = "Popen")
    /\ first_probe = "ok"
          => (calls["cleanup_body"] = 0 /\ calls["terminate"] = 0
                /\ calls["kill"] = 0)

\* The service was already running; the handler's cleanup() and the exit hook's
\* both ran, and the session is over.
C17_Witness ==
    /\ first_probe = "ok" /\ Done
    /\ signals = 1 /\ calls["cleanup"] = 2

\* C18: the handle is recorded whatever the re-probe says: after a failed
\* re-probe the spawned process is owned, and an owned process has been
\* terminated by teardown when the process exits.
C18_DegradedServiceStillOwned ==
    /\ flags["verify_failed"]
          => (redis_process = "Popen" /\ spawned["redis_server"] = 1)
    /\ (Done /\ redis_process = "Popen")
          => (calls["terminate"] >= 1 /\ ~redis_alive)

\* A finished degraded session: the re-probe failed, teardown stopped the service.
C18_Witness ==
    /\ Done /\ signals = 0
    /\ flags["verify_failed"] /\ flags["redis_warning"]
    /\ redis_process = "Popen" /\ calls["terminate"] = 1 /\ ~redis_alive

\* C19: when pip fails the session ends with status 1 and has run no probe of
\* the service, spawned no service process, created no configuration file and
\* launched no client; without requirements.txt the step warns, spawns nothing
\* and returns, and the session goes on.
C19_InstallFailureEndsSession ==
    /\ flags["pip_failed"] =>
          /\ status = 1
          /\ pc \in {"atexit", "done"}
          /\ calls["start_redis"] = 0
          /\ spawned["redis_cli"] + spawned["redis_server"]
                + spawned["client"] = 0
          /\ calls["config_create"] = 0 /\ ~flags["client_launched"]
    /\ (~requirements_exists /\ Len(steps) >= 5) =>
          /\ flags["requirements_warning"] /\ spawned["pip"] = 0
          /\ Len(steps) >= 6 /\ steps[6] = <<"install_dependencies", "end">>
          /\ (signals = 0
                /\ pc \in {"finally", "finally_unlink", "atexit", "done"})
               => (calls["start_redis"] = 1 /\ flags["client_launched"])

\* A finished session that pip's failure ended.
C19_Witness ==
    /\ Done /\ flags["pip_failed"]
    /\ spawned["pip"] = 1 /\ status = 1

====
